---------------------------- MODULE Spec2Model ----------------------------
(***************************************************************************)
(* uGit: the in-memory version-control simulator of src/git.h.             *)
(*                                                                         *)
(* A C string is the sequence of its character codes (ASCII), without the  *)
(* terminating NUL.  The staging area file_list and the history            *)
(* commit_list are singly linked lists; each is the sequence of its nodes  *)
(* from the head.  Every API function is one action; the action records    *)
(* the call (op, arg), its return value (ret) and what it printed (out).   *)
(***************************************************************************)
EXTENDS Integers, Sequences, FiniteSets, TLC

VARIABLES
    file_list,             \* static FileNode *file_list: the filenames, head first
    commit_list,           \* static commitGit *commit_list: the commits, head first
    is_repo_initialized,   \* static int is_repo_initialized
    op,                    \* the API function called last
    arg,                   \* its string argument (<<>> when it takes none)
    ret,                   \* its return value
    out,                   \* what it printed: a message tag and the lines of a listing
    alive,                 \* the process is running (FALSE once it has been killed)
    journal                \* history variable: for each call of commit that returned 0,
                           \* in order of the calls, its argument and the staging
                           \* traversal at the call

vars == <<file_list, commit_list, is_repo_initialized, op, arg, ret, out, alive, journal>>

---------------------------------------------------------------------------
(* Program constants *)

MAX_ARG_LENGTH == 50
MAX_FILES == 10

(* Bounds of the model *)

\* Spec caps the history at MaxCommits commits
MaxCommits == 2
\* SpecFresh and SpecCap cap the history at MaxFewCommits commits
MaxFewCommits == 1
\* SpecFresh stops adding files at MaxStaged staged entries
MaxStaged == 3
\* SpecCap offers MaxExtra file names beyond the MAX_FILES - 1 staged at its start
MaxExtra == 2

---------------------------------------------------------------------------
(* Strings and sequences *)

Min(a, b) == IF a < b THEN a ELSE b

Range(s) == { s[i] : i \in 1..Len(s) }

RECURSIVE Reverse(_)
Reverse(s) == IF s = <<>> THEN <<>> ELSE Append(Reverse(Tail(s)), Head(s))

NoRepeat(s) == \A i, j \in 1..Len(s) : i # j => s[i] # s[j]

\* strlen: the number of characters before the NUL
strlen(s) == Len(s)

\* strcmp: 0 iff equal; otherwise the difference of the first differing
\* characters, the NUL (0) standing at the end of the shorter string
RECURSIVE strcmp(_, _)
strcmp(s, t) ==
    IF s = <<>> /\ t = <<>> THEN 0
    ELSE IF s = <<>> THEN 0 - t[1]
    ELSE IF t = <<>> THEN s[1]
    ELSE IF s[1] # t[1] THEN s[1] - t[1]
    ELSE strcmp(Tail(s), Tail(t))

\* strncpy(dst, src, MAX_ARG_LENGTH); dst[MAX_ARG_LENGTH - 1] = '\0':
\* strncpy copies at most MAX_ARG_LENGTH characters (and pads a shorter src with
\* NULs), the assignment then cuts the string at MAX_ARG_LENGTH - 1 characters
copy_string(src) ==
    LET copied == SubSeq(src, 1, Min(Len(src), MAX_ARG_LENGTH))
    IN  SubSeq(copied, 1, Min(Len(copied), MAX_ARG_LENGTH - 1))

---------------------------------------------------------------------------
(* Inputs *)

\* "a", "b"
FileArgs == { <<97>>, <<98>> }
\* "m", "M"
MsgArgs == { <<109>>, <<77>> }

\* What malloc(sizeof(commitGit)) returns is not initialised: archivos[i].filename
\* holds whatever the block held before.  Two block images are drawn: a fresh
\* block of zero bytes, and a reused block whose last slot still holds "a".
ZeroBlock == [i \in 1..MAX_FILES |-> <<>>]
StaleBlock == [i \in 1..MAX_FILES |-> IF i = MAX_FILES THEN <<97>> ELSE <<>>]
Blocks == { ZeroBlock, StaleBlock }

NoOut == [msg |-> "", lines |-> <<>>]

\* An action that calls malloc takes mem, the number of blocks malloc grants
\* during the call before it returns NULL.  No call asks for more than
\* MAX_FILES blocks, so with NoFailure every allocation of the call succeeds.
NoFailure == MAX_FILES

---------------------------------------------------------------------------
(* The API *)

Init ==
    /\ file_list = <<>>
    /\ commit_list = <<>>
    /\ is_repo_initialized = FALSE
    /\ op = "start"
    /\ arg = <<>>
    /\ ret = 0
    /\ out = NoOut
    /\ alive = TRUE
    /\ journal = <<>>

\* faulty variant: a call on an initialized repository returns 1
init_repo_again_is_error ==
    /\ alive
    /\ op' = "init_repo"
    /\ arg' = <<>>
    /\ ret' = IF is_repo_initialized THEN 1 ELSE 0
    /\ out' = IF is_repo_initialized THEN [msg |-> "ya inicializado", lines |-> <<>>]
              ELSE NoOut
    /\ is_repo_initialized' = TRUE
    /\ UNCHANGED <<file_list, commit_list, alive, journal>>

init_repo ==
    /\ alive
    /\ op' = "init_repo"
    /\ arg' = <<>>
    /\ ret' = 0
    /\ out' = IF is_repo_initialized THEN [msg |-> "ya inicializado", lines |-> <<>>]
              ELSE NoOut
    /\ is_repo_initialized' = TRUE
    /\ UNCHANGED <<file_list, commit_list, alive, journal>>

\* faulty variant: the check lets every call through
check_always == TRUE

check_repo_initialized == is_repo_initialized

NotInitializedOut == [msg |-> "no inicializado", lines |-> <<>>]

\* perror("Error al asignar memoria")
OutOfMemoryOut == [msg |-> "error al asignar memoria", lines |-> <<>>]

\* the search loops of add_file and remove_file: the position of the first node
\* whose filename compares equal, 0 when the loop reaches NULL
RECURSIVE find_file(_, _, _)
find_file(list, filename, i) ==
    IF i > Len(list) THEN 0
    ELSE IF strcmp(list[i], filename) = 0 THEN i
    ELSE find_file(list, filename, i + 1)

\* faulty variant: the new node is linked behind the last node
push_file_tail(new_node, list) == list \o <<new_node>>

\* new_node->next = file_list; file_list = new_node
push_file(new_node, list) == <<new_node>> \o list

add_file(filename, mem) ==
    /\ alive
    /\ op' = "add_file"
    /\ arg' = filename
    /\ IF ~check_repo_initialized
       THEN /\ ret' = -1
            /\ out' = NotInitializedOut
            /\ UNCHANGED file_list
       ELSE LET i == find_file(file_list, filename, 1)
            IN  IF i # 0
                THEN /\ file_list' = [file_list EXCEPT ![i] = copy_string(filename)]
                     /\ out' = [msg |-> "reemplazando", lines |-> <<>>]
                     /\ ret' = 0
                ELSE IF mem < 1
                THEN /\ ret' = -1
                     /\ out' = OutOfMemoryOut
                     /\ UNCHANGED file_list
                ELSE /\ file_list' = push_file(copy_string(filename), file_list)
                     /\ out' = [msg |-> "agregado", lines |-> <<>>]
                     /\ ret' = 0
    /\ UNCHANGED <<commit_list, is_repo_initialized, alive, journal>>

\* faulty variant: file_list = current->next whatever previous is, so the nodes
\* before the removed one are lost
unlink_file_and_before(list, i) == SubSeq(list, i + 1, Len(list))

\* the unlinking of remove_file: node i leaves the list
unlink_file(list, i) == SubSeq(list, 1, i - 1) \o SubSeq(list, i + 1, Len(list))

remove_file(filename) ==
    /\ alive
    /\ op' = "remove_file"
    /\ arg' = filename
    /\ IF ~check_repo_initialized
       THEN /\ ret' = -1
            /\ out' = NotInitializedOut
            /\ UNCHANGED file_list
       ELSE LET i == find_file(file_list, filename, 1)
            IN  IF i = 0
                THEN /\ ret' = -1
                     /\ out' = [msg |-> "no encontrado", lines |-> <<>>]
                     /\ UNCHANGED file_list
                ELSE /\ file_list' = unlink_file(file_list, i)
                     /\ out' = [msg |-> "eliminado", lines |-> <<>>]
                     /\ ret' = 0
    /\ UNCHANGED <<commit_list, is_repo_initialized, alive, journal>>

\* faulty variant: the copy loop stops one slot early (index < MAX_FILES - 1)
RECURSIVE copy_files_short(_, _, _)
copy_files_short(files, archivos, index) ==
    IF index < Len(files) /\ index < MAX_FILES - 1
    THEN copy_files_short(files,
                          [archivos EXCEPT ![index + 1] = copy_string(files[index + 1])],
                          index + 1)
    ELSE archivos

\* the copy loop of commit: index counts the slots written, from 0; the slots
\* the loop does not reach keep what the block held
RECURSIVE copy_files(_, _, _)
copy_files(files, archivos, index) ==
    IF index < Len(files) /\ index < MAX_FILES
    THEN copy_files(files,
                    [archivos EXCEPT ![index + 1] = copy_string(files[index + 1])],
                    index + 1)
    ELSE archivos

\* faulty variant: the new commit is linked behind the last commit
push_commit_tail(new_commit, list) == list \o <<new_commit>>

\* faulty variant: new_commit->next is left NULL, the older commits are lost
push_commit_alone(new_commit, list) == <<new_commit>>

\* new_commit->next = commit_list; commit_list = new_commit
push_commit(new_commit, list) == <<new_commit>> \o list

\* faulty variant: a successful commit empties the staging list
commit_clears_staging(mensaje, block, mem) ==
    /\ alive
    /\ op' = "commit"
    /\ arg' = mensaje
    /\ IF ~check_repo_initialized
       THEN /\ ret' = -1
            /\ out' = NotInitializedOut
            /\ UNCHANGED <<file_list, commit_list, journal>>
       ELSE IF mem < 1
       THEN /\ ret' = -1
            /\ out' = OutOfMemoryOut
            /\ UNCHANGED <<file_list, commit_list, journal>>
       ELSE LET new_commit == [archivos |-> copy_files(file_list, block, 0),
                               mensaje  |-> copy_string(mensaje)]
            IN  /\ commit_list' = push_commit(new_commit, commit_list)
                /\ journal' = Append(journal, [mensaje |-> mensaje, staged |-> file_list])
                /\ file_list' = <<>>
                /\ out' = [msg |-> "commit creado", lines |-> <<>>]
                /\ ret' = 0
    /\ UNCHANGED <<is_repo_initialized, alive>>

commit(mensaje, block, mem) ==
    /\ alive
    /\ op' = "commit"
    /\ arg' = mensaje
    /\ IF ~check_repo_initialized
       THEN /\ ret' = -1
            /\ out' = NotInitializedOut
            /\ UNCHANGED <<commit_list, journal>>
       ELSE IF mem < 1
       THEN /\ ret' = -1
            /\ out' = OutOfMemoryOut
            /\ UNCHANGED <<commit_list, journal>>
       ELSE LET new_commit == [archivos |-> copy_files(file_list, block, 0),
                               mensaje  |-> copy_string(mensaje)]
            IN  /\ commit_list' = push_commit(new_commit, commit_list)
                /\ journal' = Append(journal, [mensaje |-> mensaje, staged |-> file_list])
                /\ out' = [msg |-> "commit creado", lines |-> <<>>]
                /\ ret' = 0
    /\ UNCHANGED <<file_list, is_repo_initialized, alive>>

\* the print loop of log_commits
log_lines(list) == [i \in 1..Len(list) |-> list[i].mensaje]

log_commits ==
    /\ alive
    /\ op' = "log_commits"
    /\ arg' = <<>>
    /\ IF ~check_repo_initialized
       THEN /\ ret' = -1
            /\ out' = NotInitializedOut
       ELSE /\ ret' = 0
            /\ out' = IF commit_list = <<>>
                      THEN [msg |-> "no hay commits", lines |-> <<>>]
                      ELSE [msg |-> "historial", lines |-> log_lines(commit_list)]
    /\ UNCHANGED <<file_list, commit_list, is_repo_initialized, alive, journal>>

\* faulty variant: the loop tests current_commit->next != NULL, so it stops on the last
\* commit instead of NULL
RECURSIVE find_commit_stop_at_last(_, _, _)
find_commit_stop_at_last(list, commit_id, i) ==
    IF i > Len(list) THEN 0
    ELSE IF i = Len(list) \/ strcmp(list[i].mensaje, commit_id) = 0 THEN i
    ELSE find_commit_stop_at_last(list, commit_id, i + 1)

\* faulty variant: the search keeps the last match instead of stopping on the first
RECURSIVE find_commit_oldest(_, _, _)
find_commit_oldest(list, commit_id, i) ==
    IF i > Len(list) THEN 0
    ELSE LET later == find_commit_oldest(list, commit_id, i + 1)
         IN  IF later # 0 THEN later
             ELSE IF strcmp(list[i].mensaje, commit_id) = 0 THEN i
             ELSE 0

\* the search loop of checkout_commit: the position of the first commit whose
\* mensaje compares equal to commit_id, 0 when the loop reaches NULL
RECURSIVE find_commit(_, _, _)
find_commit(list, commit_id, i) ==
    IF i > Len(list) THEN 0
    ELSE IF strcmp(list[i].mensaje, commit_id) = 0 THEN i
    ELSE find_commit(list, commit_id, i + 1)

\* the restore loop of checkout_commit: every slot i = 0 .. MAX_FILES - 1 with a
\* non-empty filename becomes a new node at the head of list
RECURSIVE restore_files(_, _, _)
restore_files(archivos, i, list) ==
    IF i < MAX_FILES
    THEN restore_files(archivos, i + 1,
                       IF strlen(archivos[i + 1]) > 0
                       THEN <<copy_string(archivos[i + 1])>> \o list
                       ELSE list)
    ELSE list

\* faulty variant: the nodes are not freed and file_list is not reset
free_list_keep(list) == list

\* the loop that frees every node of the staging list; file_list = NULL
free_list(list) == <<>>

\* The result of malloc in the restore loop is not tested.  When malloc returns
\* NULL, strncpy writes through the null pointer: the process is killed
\* (SIGSEGV) with the staging list already freed and holding the nodes linked
\* so far, which are the last mem nodes of the full restored list.
checkout_commit(commit_id, mem) ==
    /\ alive
    /\ op' = "checkout_commit"
    /\ arg' = commit_id
    /\ IF ~check_repo_initialized
       THEN /\ ret' = -1
            /\ out' = NotInitializedOut
            /\ UNCHANGED <<file_list, alive>>
       ELSE LET k == find_commit(commit_list, commit_id, 1)
            IN  IF k = 0
                THEN /\ ret' = -1
                     /\ out' = [msg |-> "commit no encontrado", lines |-> <<>>]
                     /\ UNCHANGED <<file_list, alive>>
                ELSE LET archivos == commit_list[k].archivos
                         needed == Len(restore_files(archivos, 0, <<>>))
                         restored == restore_files(archivos, 0, free_list(file_list))
                     IN  IF needed > mem
                         THEN /\ file_list' = SubSeq(restored, needed - mem + 1, needed)
                              /\ out' = [msg |-> "SIGSEGV", lines |-> <<>>]
                              /\ ret' = ret
                              /\ alive' = FALSE
                         ELSE /\ file_list' = restored
                              /\ out' = [msg |-> "restaurado", lines |-> <<>>]
                              /\ ret' = 0
                              /\ UNCHANGED alive
    /\ UNCHANGED <<commit_list, is_repo_initialized, journal>>

\* faulty variant: with nothing staged the call returns -1
list_files_empty_is_error ==
    /\ alive
    /\ op' = "list_files"
    /\ arg' = <<>>
    /\ IF ~check_repo_initialized
       THEN /\ ret' = -1
            /\ out' = NotInitializedOut
       ELSE /\ ret' = IF file_list = <<>> THEN -1 ELSE 0
            /\ out' = IF file_list = <<>>
                      THEN [msg |-> "no hay archivos", lines |-> <<>>]
                      ELSE [msg |-> "archivos", lines |-> file_list]
    /\ UNCHANGED <<file_list, commit_list, is_repo_initialized, alive, journal>>

list_files ==
    /\ alive
    /\ op' = "list_files"
    /\ arg' = <<>>
    /\ IF ~check_repo_initialized
       THEN /\ ret' = -1
            /\ out' = NotInitializedOut
       ELSE /\ ret' = 0
            /\ out' = IF file_list = <<>>
                      THEN [msg |-> "no hay archivos", lines |-> <<>>]
                      ELSE [msg |-> "archivos", lines |-> file_list]
    /\ UNCHANGED <<file_list, commit_list, is_repo_initialized, alive, journal>>

---------------------------------------------------------------------------
(* Spec: a session from program start, file names "a" and "b", messages "m"  *)
(* and "M"                                                                   *)

Next ==
    \/ init_repo
    \/ \E f \in FileArgs : add_file(f, NoFailure)
    \/ \E f \in FileArgs : remove_file(f)
    \/ \E m \in MsgArgs, b \in Blocks : Len(commit_list) < MaxCommits /\ commit(m, b, NoFailure)
    \/ log_commits
    \/ \E id \in MsgArgs : checkout_commit(id, NoFailure)
    \/ list_files

Spec == Init /\ [][Next]_vars

---------------------------------------------------------------------------
(* SpecCap: a session continued from the state after init and MAX_FILES - 1  *)
(* calls of add_file, with MaxExtra more file names to add and remove        *)

\* "fa", "fb", ...: the i-th file name
CapName(i) == <<102, 96 + i>>

CapArgs == { CapName(MAX_FILES - 1 + i) : i \in 1..MaxExtra }

InitCap ==
    /\ file_list = [i \in 1..(MAX_FILES - 1) |-> CapName(MAX_FILES - i)]
    /\ commit_list = <<>>
    /\ is_repo_initialized = TRUE
    /\ op = "add_file"
    /\ arg = CapName(MAX_FILES - 1)
    /\ ret = 0
    /\ out = [msg |-> "agregado", lines |-> <<>>]
    /\ alive = TRUE
    /\ journal = <<>>

NextCap ==
    \/ init_repo
    \/ \E f \in CapArgs : add_file(f, NoFailure)
    \/ \E f \in CapArgs : remove_file(f)
    \/ \E b \in Blocks : Len(commit_list) < MaxFewCommits /\ commit(<<109>>, b, NoFailure)
    \/ log_commits
    \/ checkout_commit(<<109>>, NoFailure)
    \/ list_files

SpecCap == InitCap /\ [][NextCap]_vars

---------------------------------------------------------------------------
(* SpecFresh: a session from program start on a fresh heap, where every block *)
(* malloc returns is zero-filled, with a file name and a commit message of    *)
(* MAX_ARG_LENGTH characters                                                  *)

\* "xx...x", MAX_ARG_LENGTH characters
LongName == [i \in 1..MAX_ARG_LENGTH |-> 120]

FreshFileArgs == { <<97>>, LongName }

\* "m", and a message of MAX_ARG_LENGTH characters
FreshMsgArgs == { <<109>>, LongName }

NextFresh ==
    \/ init_repo
    \/ \E f \in FreshFileArgs : Len(file_list) < MaxStaged /\ add_file(f, NoFailure)
    \/ \E f \in FreshFileArgs : remove_file(f)
    \/ \E m \in FreshMsgArgs :
          Len(commit_list) < MaxFewCommits /\ commit(m, ZeroBlock, NoFailure)
    \/ log_commits
    \/ \E id \in FreshMsgArgs : checkout_commit(id, NoFailure)
    \/ list_files

SpecFresh == Init /\ [][NextFresh]_vars

---------------------------------------------------------------------------
(* SpecOOM: a session from program start in which malloc may return NULL: a   *)
(* call is granted no block, one block, or all it asks for.  The blocks       *)
(* granted are zero-filled.                                                   *)

MemArgs == { 0, 1, NoFailure }

NextOOM ==
    \/ init_repo
    \/ \E f \in FileArgs, mem \in MemArgs : add_file(f, mem)
    \/ \E f \in FileArgs : remove_file(f)
    \/ \E mem \in MemArgs :
          Len(commit_list) < MaxFewCommits /\ commit(<<109>>, ZeroBlock, mem)
    \/ log_commits
    \/ \E mem \in MemArgs : checkout_commit(<<109>>, mem)
    \/ list_files

SpecOOM == Init /\ [][NextOOM]_vars

---------------------------------------------------------------------------
(* Properties *)

\* the positions of the commits of the history whose stored message is id
Matches(id) == { k \in 1..Len(commit_list) : commit_list[k].mensaje = id }

\* the most recently created commit whose stored message is id
Newest(id) == CHOOSE k \in Matches(id) : \A j \in Matches(id) : k <= j

\* the journal entry of the commit at position k of the history
JournalOf(k) == journal[Len(commit_list) - k + 1]

\* the non-empty file names a commit stores, in slot order
Entries(c) == SelectSeq(c.archivos, LAMBDA name : name # <<>>)

\* the messages of the commits created so far, as stored, in order of creation
JournalMsgs == [i \in 1..Len(journal) |-> copy_string(journal[i].mensaje)]

CheckedOut == op = "checkout_commit" /\ ret = 0 /\ Matches(arg) # {}

\* C1 (as claimed): after commit(m) on a staging set S of at most MAX_FILES
\* distinct names and a later successful checkout_commit(m) of that commit, the
\* staging set holds exactly the names of S.
C1_RoundTrip ==
    CheckedOut =>
        LET S == JournalOf(Newest(arg)).staged
        IN  (Len(S) <= MAX_FILES /\ NoRepeat(S)) => Range(file_list) = Range(S)

\* C2 (as claimed): right after a successful checkout_commit the staging
\* traversal is the sequence staging traversal yielded when the commit was
\* recorded, limited to its first MAX_FILES entries.
C2_StoredOrder ==
    CheckedOut =>
        LET S == JournalOf(Newest(arg)).staged
        IN  file_list = SubSeq(S, 1, Min(Len(S), MAX_FILES))

\* C3: on an initialized repository, checkout_commit(id) with no commit whose
\* message equals id returns -1 and leaves staging and history as they were.
C3_NotFoundSafety ==
    [][(is_repo_initialized /\ op' = "checkout_commit" /\ Matches(arg') = {})
        => /\ ret' = -1
           /\ file_list' = file_list
           /\ commit_list' = commit_list]_vars

C3_Witness ==
    /\ is_repo_initialized
    /\ op = "checkout_commit"
    /\ ret = -1
    /\ Matches(arg) = {}
    /\ commit_list # <<>>
    /\ file_list # <<>>

\* C4 (as claimed): no two entries of the staging set share a name.
C4_StagingUnique == NoRepeat(file_list)

\* C5: while the repository is uninitialized every operation but init_repo
\* returns -1 and changes nothing, so staging and history are empty when
\* init_repo first succeeds.
C5_Precondition ==
    [][~is_repo_initialized =>
        IF op' = "init_repo"
        THEN /\ ret' = 0
             /\ is_repo_initialized'
             /\ file_list' = <<>>
             /\ commit_list' = <<>>
        ELSE /\ ret' = -1
             /\ ~is_repo_initialized'
             /\ file_list' = file_list
             /\ commit_list' = commit_list]_vars

C5_Witness ==
    /\ ~is_repo_initialized
    /\ op \in {"add_file", "remove_file", "commit", "log_commits",
               "checkout_commit", "list_files"}
    /\ ret = -1
    /\ file_list = <<>>
    /\ commit_list = <<>>

\* C6: the history holds the commits newest first, and log_commits prints the
\* messages of all commits created so far in reverse order of creation.
C6_HistoryOrder ==
    /\ log_lines(commit_list) = Reverse(JournalMsgs)
    /\ (op = "log_commits" /\ ret = 0) => out.lines = Reverse(JournalMsgs)

C6_Witness ==
    /\ op = "log_commits"
    /\ ret = 0
    /\ Len(journal) = 2
    /\ journal[1].mensaje # journal[2].mensaje
    /\ out.lines = <<journal[2].mensaje, journal[1].mensaje>>

\* C7: a step either leaves the history as it is or is a successful commit that
\* puts one new commit before the unchanged older ones; checkout_commit never
\* changes the history.
C7_HistoryImmutable ==
    [][/\ \/ commit_list' = commit_list
          \/ /\ op' = "commit"
             /\ ret' = 0
             /\ commit_list' # <<>>
             /\ Tail(commit_list') = commit_list
       /\ op' = "checkout_commit" => commit_list' = commit_list]_vars

C7_Witness ==
    /\ op = "checkout_commit"
    /\ ret = 0
    /\ Len(commit_list) = 2
    /\ \A k \in 1..2 :
          SubSeq(commit_list[k].archivos, 1, Len(JournalOf(k).staged))
              = JournalOf(k).staged
    /\ file_list # JournalOf(1).staged

\* C8 (as claimed): a successful checkout_commit of a commit recorded with zero
\* staged files leaves the staging set empty.
C8_EmptySnapshot ==
    (CheckedOut /\ JournalOf(Newest(arg)).staged = <<>>) => file_list = <<>>

\* C9: with more than MAX_FILES entries staged, commit returns 0, the new
\* commit holds exactly the first MAX_FILES entries of the staging traversal,
\* and the staging set is not changed.
C9_CapacityBound ==
    [][(is_repo_initialized /\ Len(file_list) > MAX_FILES /\ op' = "commit")
        => /\ ret' = 0
           /\ Len(commit_list') = Len(commit_list) + 1
           /\ Head(commit_list').archivos = SubSeq(file_list, 1, MAX_FILES)
           /\ file_list' = file_list]_vars

C9_Witness ==
    /\ op = "commit"
    /\ ret = 0
    /\ Len(file_list) > MAX_FILES
    /\ Head(commit_list).archivos = SubSeq(file_list, 1, MAX_FILES)
    /\ file_list[MAX_FILES + 1] \notin Range(Head(commit_list).archivos)

\* C10: on an initialized repository checkout_commit(id) fails with -1 and
\* keeps staging when no stored message equals id character for character;
\* otherwise it returns 0 and staging holds the stored entries of the most
\* recently created commit whose message equals id.
C10_FirstMatch ==
    [][(is_repo_initialized /\ op' = "checkout_commit")
        => IF Matches(arg') = {}
           THEN ret' = -1 /\ file_list' = file_list
           ELSE LET stored == Entries(commit_list[Newest(arg')])
                IN  /\ ret' = 0
                    /\ Len(file_list') = Len(stored)
                    /\ Range(file_list') = Range(stored)]_vars

C10_Witness ==
    /\ op = "checkout_commit"
    /\ ret = 0
    /\ \E k1, k2 \in Matches(arg) :
          /\ k1 < k2
          /\ Range(Entries(commit_list[k1])) # Range(Entries(commit_list[k2]))
          /\ Range(file_list) = Range(Entries(commit_list[k1]))

\* C11: on an initialized repository remove_file(n) with n staged returns 0
\* and takes one entry named n out of the staging traversal, every other entry
\* keeping its place in the order; with n not staged it returns -1 and leaves
\* staging as it was.  The history is unchanged either way.
C11_Removal ==
    [][(is_repo_initialized /\ op' = "remove_file")
        => /\ commit_list' = commit_list
           /\ IF arg' \in Range(file_list)
              THEN /\ ret' = 0
                   /\ \E i \in 1..Len(file_list) :
                         /\ file_list[i] = arg'
                         /\ Len(file_list') = Len(file_list) - 1
                         /\ \A j \in 1..Len(file_list') :
                               file_list'[j] = file_list[IF j < i THEN j ELSE j + 1]
              ELSE /\ ret' = -1
                   /\ file_list' = file_list]_vars

C11_Witness ==
    /\ op = "remove_file"
    /\ ret = 0
    /\ file_list # <<>>
    /\ arg \notin Range(file_list)
    /\ commit_list # <<>>

\* C12: on an initialized repository add_file(n) returns 0; with n not staged
\* the entry for n (the name as add_file stores it) is put at the front of the
\* traversal before the unchanged previous entries; with n staged the staging
\* traversal is unchanged and the outcome is "replaced".
C12_AddFront ==
    [][(is_repo_initialized /\ op' = "add_file")
        => /\ ret' = 0
           /\ IF arg' \in Range(file_list)
              THEN file_list' = file_list /\ out'.msg = "reemplazando"
              ELSE /\ file_list' # <<>>
                   /\ Head(file_list') = copy_string(arg')
                   /\ Tail(file_list') = file_list
                   /\ out'.msg = "agregado"]_vars

C12_Witness ==
    /\ op = "add_file"
    /\ ret = 0
    /\ out.msg = "agregado"
    /\ Len(file_list) >= 2
    /\ Head(file_list) = arg

AllocationFailed == out.msg \in { OutOfMemoryOut.msg, "SIGSEGV" }

\* C14 (as claimed): a call of add_file, commit or checkout_commit during
\* which malloc returns NULL returns -1 with the process still running and
\* with staging and history as they were before the call.
C14_NoPartialMutation ==
    [][(alive /\ AllocationFailed')
        => /\ alive'
           /\ ret' = -1
           /\ file_list' = file_list
           /\ commit_list' = commit_list]_vars

C16_LookupByMessage ==
    (/\ is_repo_initialized
     /\ op = "checkout_commit"
     /\ Len(arg) <= MAX_ARG_LENGTH
     /\ \E j \in 1..Len(journal) : journal[j].mensaje = arg)
        => ret = 0

\* C17: a call of commit leaves the staging traversal as it was; a call of
\* add_file or remove_file leaves the history as it was.
C17_Frame ==
    [][/\ op' = "commit" => file_list' = file_list
       /\ op' \in {"add_file", "remove_file"} => commit_list' = commit_list]_vars

C17_Witness ==
    /\ op = "commit"
    /\ ret = 0
    /\ Len(file_list) >= 2
    /\ file_list = JournalOf(1).staged
    /\ Len(commit_list) = 2

\* C18: a successful checkout_commit(id) that directly follows a successful
\* checkout_commit(id) with the same id succeeds and leaves the staging
\* traversal as the first call left it.
C18_CheckoutIdempotent ==
    [][(op = "checkout_commit" /\ ret = 0 /\ op' = "checkout_commit" /\ arg' = arg)
        => /\ ret' = 0
           /\ file_list' = file_list]_vars

\* the state a successful checkout_commit leaves, and leaves again when the
\* call is repeated: staging holds the stored entries of the commit found
C18_Witness ==
    /\ CheckedOut
    /\ Len(file_list) >= 2
    /\ Len(file_list) = Len(Entries(commit_list[Newest(arg)]))
    /\ Range(file_list) = Range(Entries(commit_list[Newest(arg)]))

\* C19 (as claimed): every recorded commit holds at most MAX_FILES file names,
\* none of them twice, and right after a successful checkout_commit the
\* staging set has at most MAX_FILES entries.
C19_BoundedSnapshots ==
    /\ \A k \in 1..Len(commit_list) :
          /\ Len(Entries(commit_list[k])) <= MAX_FILES
          /\ NoRepeat(Entries(commit_list[k]))
    /\ (op = "checkout_commit" /\ ret = 0) => Len(file_list) <= MAX_FILES

====
